---- MODULE Spec2Model ----
(***************************************************************************)
(* examples/bins/plot_ah_found.py: the command-line script that plots, for *)
(* every requested apparent horizon, the times at which it was found.      *)
(*                                                                         *)
(* One run of the script is a straight-line process: set up matplotlib,    *)
(* parse the command line, compute the figure name, open the simulation    *)
(* directory, loop over the requested horizons, label and fix the axes,    *)
(* save the figure.  The collaborators (argument parser, SimDir, pyplot)   *)
(* may raise; the script catches nothing.                                  *)
(***************************************************************************)
EXTENDS Integers, Sequences, FiniteSets, TLC

(* ------------------------------ bounds --------------------------------- *)

\* number of distinct horizon identifiers the inputs are drawn from
NumIds == 2
\* longest list given to -a/--horizons
MaxLen == 3
\* longest detection time series of one horizon
MaxPoints == 2

\* Horizon identifiers: 2, -10, 4, -20, ... (one digit, several digits,
\* negative: --horizons takes any int).
HorizonId(k) == IF k % 2 = 1 THEN k + 1 ELSE -5 * k
Ids == {HorizonId(k) : k \in 1..NumIds}

\* The k-th time at which a horizon finder reports.
Time(k) == 5 * k
TimeSeries == {[k \in 1..n |-> Time(k)] : n \in 0..MaxPoints}

\* The figure options of the command line (kah.add_figure_to_parser):
\* --figname is optional (<<>> is None), --outdir and --fig-extension
\* have defaults.
FigureOptions ==
    { [figname |-> <<>>,      outdir |-> ".",   fig_extension |-> "png"],
      [figname |-> <<>>,      outdir |-> "out", fig_extension |-> "pdf"],
      [figname |-> <<"fig">>, outdir |-> "out", fig_extension |-> "png"] }

HorizonLists == UNION {[1..n -> Ids] : n \in 0..MaxLen}

VARIABLES
    argv,      \* the command line: horizons, figname, outdir, fig_extension
    H,         \* sim.horizons.available_apparent_horizons of the datadir
    cctk_t,    \* per available horizon: current_horizon.ah.cctk_iteration.t
    run,       \* "first" or "second" invocation of the script
    prev,      \* what the previous invocation produced (<<>> if none)
    pc,        \* position of the process in the script
    err,       \* the exception that terminated the process ("" if none)
    args,      \* the parsed arguments (<<>> before kah.get_args returns)
    figname,   \* the figure name ("" before it is computed)
    simOpen,   \* SimDir(...) has returned
    i,         \* position of the for loop in its iterable
    reads,     \* the calls sim_hor.get_apparent_horizon(ah) made so far
    series,    \* the calls plt.scatter(x, y) that returned
    axes,      \* labels, minor ticks, limits and ticks of plt.gca()
    written    \* the files this run saved, with the figure they hold

inputs == <<argv, H, cctk_t>>
process == <<pc, err, args, figname, simOpen, i, reads, series, axes, written>>
vars == <<argv, H, cctk_t, run, prev, pc, err, args, figname, simOpen, i,
          reads, series, axes, written>>

(* --------------------------- pure functions ---------------------------- *)

Range(s) == {s[k] : k \in 1..Len(s)}

\* str(d) for one decimal digit
Digit(d) ==
    CASE d = 0 -> "0" [] d = 1 -> "1" [] d = 2 -> "2" [] d = 3 -> "3"
      [] d = 4 -> "4" [] d = 5 -> "5" [] d = 6 -> "6" [] d = 7 -> "7"
      [] d = 8 -> "8" [] d = 9 -> "9"

RECURSIVE NatStr(_)
NatStr(n) == IF n < 10 THEN Digit(n) ELSE NatStr(n \div 10) \o Digit(n % 10)

\* str(h) of a Python int
Str(h) == IF h < 0 THEN "-" \o NatStr(-h) ELSE NatStr(h)

\* sep.join(strs)
RECURSIVE Join(_, _)
Join(sep, strs) ==
    IF Len(strs) = 0 THEN ""
    ELSE IF Len(strs) = 1 THEN strs[1]
    ELSE strs[1] \o sep \o Join(sep, Tail(strs))

\* min(s) and max(s) of a non-empty Python list: one left-to-right scan
RECURSIVE PyMin(_)
PyMin(s) ==
    IF Len(s) = 1 THEN s[1]
    ELSE LET m == PyMin(Tail(s)) IN IF m < s[1] THEN m ELSE s[1]

RECURSIVE PyMax(_)
PyMax(s) ==
    IF Len(s) = 1 THEN s[1]
    ELSE LET m == PyMax(Tail(s)) IN IF m > s[1] THEN m ELSE s[1]

\* s without the later occurrences of a value already in it
RECURSIVE Unique(_)
Unique(s) ==
    IF Len(s) = 0 THEN <<>>
    ELSE LET u == Unique(SubSeq(s, 1, Len(s) - 1)) IN
         IF s[Len(s)] \in Range(u) THEN u ELSE Append(u, s[Len(s)])

\* sorted(s)
RECURSIVE Sorted(_)
Sorted(s) ==
    IF Len(s) = 0 THEN <<>>
    ELSE LET m == PyMin(s)
             k == CHOOSE j \in 1..Len(s) : s[j] = m
         IN <<m>> \o Sorted(SubSeq(s, 1, k - 1) \o SubSeq(s, k + 1, Len(s)))

(* ----------------------- the script's expressions ---------------------- *)

\* the default name built from the available horizons only
DefaultFignameAvailable(horizons) ==
    LET av == SelectSeq(horizons, LAMBDA h : h \in H) IN
    "ah_" \o Join("_", [k \in 1..Len(av) |-> Str(av[k])]) \o "_found"

\* the default name with the invocation in it
DefaultFignameStamped(horizons) ==
    "ah_" \o Join("_", [k \in 1..Len(horizons) |-> Str(horizons[k])])
          \o "_found_" \o run

\* horizons = "_".join([str(h) for h in args.horizons]);
\* default=f"ah_{horizons}_found"
DefaultFigname(horizons) ==
    "ah_" \o Join("_", [k \in 1..Len(horizons) |-> Str(horizons[k])])
          \o "_found"

\* get_figname(args, default=...): --figname if given, else the default
get_figname(a, default) == IF a.figname = <<>> THEN default ELSE a.figname[1]

\* the file save_from_dir_filename_ext(outdir, figname, ext) writes
FigurePath(outdir, name, ext) == outdir \o "/" \o name \o "." \o ext

\* a loop over the distinct requested horizons
IterableUnique(a) == Unique(a.horizons)

\* a loop over the requested horizons in increasing order
IterableSorted(a) == Sorted(a.horizons)

\* for ah in args.horizons: the list the loop walks
Iterable(a) == a.horizons

\* if ah in sim_hor.available_apparent_horizons
Available(ah) == ah \in H

\* time_found = current_horizon.ah.cctk_iteration.t
TimeFound(ah) == cctk_t[ah]

\* the positions of the points instead of the horizon
AhNumIndex(ah, time_found) == [k \in 1..Len(time_found) |-> k]

\* never an empty list of y values
AhNumAtLeastOne(ah, time_found) ==
    [k \in 1..(IF Len(time_found) = 0 THEN 1 ELSE Len(time_found)) |-> ah]

\* ah_num = [ah] * len(time_found)
AhNum(ah, time_found) == [k \in 1..Len(time_found) |-> ah]

\* limits without the margin below
YLimNoMargin(horizons) == <<PyMin(horizons), PyMax(horizons) + 1>>

\* plt.ylim(min(args.horizons) - 1, max(args.horizons) + 1)
YLim(horizons) == <<PyMin(horizons) - 1, PyMax(horizons) + 1>>

\* ticks only for the horizons the simulation has
YTicksAvailable(horizons) == SelectSeq(horizons, LAMBDA h : h \in H)

\* plt.yticks(args.horizons)
YTicks(horizons) == horizons

\* the for loop has left its body after the first element
LoopDoneEarly == i > 1

\* the for loop has exhausted its iterable
LoopDone == i > Len(Iterable(args))

\* an exception handler that records the failure and goes on to save
Swallow(e) ==
    /\ err' = e
    /\ pc' = IF pc = "parse" THEN "error" ELSE "save"

\* nothing catches: the exception ends the process
Raise(e) ==
    /\ err' = e
    /\ pc' = "error"

\* axes of a new figure
NoAxes == [xlabel |-> "", ylabel |-> "", minor_left |-> TRUE,
           ylim |-> <<>>, yticks |-> <<>>]

\* what a finished run has produced
Outcome == [written |-> written, series |-> series,
            yticks |-> axes.yticks, ylim |-> axes.ylim]

(* ------------------------------ the process ---------------------------- *)

\* The state a process starts in: at setup, nothing parsed, nothing opened,
\* an empty figure, nothing written.
Init ==
    /\ \E hs \in HorizonLists, o \in FigureOptions :
         argv = [horizons |-> hs, figname |-> o.figname,
                 outdir |-> o.outdir, fig_extension |-> o.fig_extension]
    /\ H \in SUBSET Ids
    /\ cctk_t \in [H -> TimeSeries]
    /\ run = "first"
    /\ prev = <<>>
    /\ pc = "setup"
    /\ err = ""
    /\ args = <<>>
    /\ figname = ""
    /\ simOpen = FALSE
    /\ i = 1
    /\ reads = <<>>
    /\ series = <<>>
    /\ axes = NoAxes
    /\ written = <<>>

\* setup_matplotlib()
Setup ==
    /\ pc = "setup"
    /\ pc' = "parse"
    /\ UNCHANGED <<inputs, run, prev, err, args, figname, simOpen, i, reads,
                   series, axes, written>>

\* parser.add_argument("-a", "--horizons", type=int, required=True,
\* nargs="+"); args = kah.get_args(parser): at least one horizon, or the
\* parser exits with a usage error.
ParseArgs ==
    /\ pc = "parse"
    /\ IF Len(argv.horizons) >= 1
       THEN /\ args' = argv
            /\ pc' = "figname"
            /\ err' = err
       ELSE /\ Raise("ArgumentError")
            /\ args' = args
    /\ UNCHANGED <<inputs, run, prev, figname, simOpen, i, reads, series,
                   axes, written>>

\* figname = get_figname(args, default=f"ah_{horizons}_found")
ComputeFigname ==
    /\ pc = "figname"
    /\ figname' = get_figname(args, DefaultFigname(args.horizons))
    /\ pc' = "simdir"
    /\ UNCHANGED <<inputs, run, prev, err, args, simOpen, i, reads, series,
                   axes, written>>

\* sim = SimDir(args.datadir, ...); sim_hor = sim.horizons
OpenSimDir ==
    /\ pc = "simdir"
    /\ simOpen' = TRUE
    /\ pc' = "loop"
    /\ UNCHANGED <<inputs, run, prev, err, args, figname, i, reads, series,
                   axes, written>>

\* SimDir raises (datadir missing or unreadable)
OpenSimDirFails ==
    /\ pc = "simdir"
    /\ Raise("DataError")
    /\ UNCHANGED <<inputs, run, prev, args, figname, simOpen, i, reads,
                   series, axes, written>>

\* one pass of the loop body for a horizon the simulation does not have
SkipHorizon ==
    /\ pc = "loop"
    /\ ~LoopDone
    /\ ~Available(Iterable(args)[i])
    /\ i' = i + 1
    /\ UNCHANGED <<inputs, run, prev, pc, err, args, figname, simOpen, reads,
                   series, axes, written>>

\* one pass of the loop body for an available horizon: read it, build
\* ah_num, plt.scatter(time_found, ah_num, marker="o", s=0.1); scatter
\* raises ValueError when x and y differ in size.
PlotHorizon ==
    /\ pc = "loop"
    /\ ~LoopDone
    /\ LET ah == Iterable(args)[i] IN
       /\ Available(ah)
       /\ reads' = Append(reads, ah)
       /\ LET time_found == TimeFound(ah)
              ah_num == AhNum(ah, time_found)
          IN IF Len(time_found) = Len(ah_num)
             THEN /\ series' = Append(series, [x |-> time_found, y |-> ah_num])
                  /\ i' = i + 1
                  /\ UNCHANGED <<pc, err>>
             ELSE /\ Raise("ValueError")
                  /\ UNCHANGED <<series, i>>
    /\ UNCHANGED <<inputs, run, prev, args, figname, simOpen, axes, written>>

\* sim_hor.get_apparent_horizon(ah) raises (malformed horizon files)
ReadHorizonFails ==
    /\ pc = "loop"
    /\ ~LoopDone
    /\ Available(Iterable(args)[i])
    /\ reads' = Append(reads, Iterable(args)[i])
    /\ Raise("DataError")
    /\ UNCHANGED <<inputs, run, prev, args, figname, simOpen, i, series,
                   axes, written>>

\* the plotting backend raises inside plt.scatter
ScatterFails ==
    /\ pc = "loop"
    /\ ~LoopDone
    /\ Available(Iterable(args)[i])
    /\ reads' = Append(reads, Iterable(args)[i])
    /\ Raise("PlotError")
    /\ UNCHANGED <<inputs, run, prev, args, figname, simOpen, i, series,
                   axes, written>>

\* plt.ylabel("Apparent horizon"); plt.xlabel("Time")
Labels ==
    /\ pc = "loop"
    /\ LoopDone
    /\ axes' = [axes EXCEPT !.ylabel = "Apparent horizon", !.xlabel = "Time"]
    /\ pc' = "ticks"
    /\ UNCHANGED <<inputs, run, prev, err, args, figname, simOpen, i, reads,
                   series, written>>

\* plt.gca().tick_params(axis="y", which="minor", left=False);
\* plt.ylim(min(...) - 1, max(...) + 1); plt.yticks(args.horizons);
\* min() of an empty list raises ValueError.
FixTicks ==
    /\ pc = "ticks"
    /\ IF Len(args.horizons) = 0
       THEN /\ Raise("ValueError")
            /\ axes' = [axes EXCEPT !.minor_left = FALSE]
       ELSE /\ axes' = [axes EXCEPT !.minor_left = FALSE,
                                    !.ylim = YLim(args.horizons),
                                    !.yticks = YTicks(args.horizons)]
            /\ pc' = "save"
            /\ err' = err
    /\ UNCHANGED <<inputs, run, prev, args, figname, simOpen, i, reads,
                   series, written>>

\* save_from_dir_filename_ext(args.outdir, figname, args.fig_extension)
SaveFigure ==
    /\ pc = "save"
    /\ written' = Append(written,
                     [path |-> FigurePath(args.outdir, figname,
                                          args.fig_extension),
                      series |-> series, axes |-> axes])
    /\ pc' = "done"
    /\ UNCHANGED <<inputs, run, prev, err, args, figname, simOpen, i, reads,
                   series, axes>>

\* the plotting backend raises while saving
SaveFigureFails ==
    /\ pc = "save"
    /\ Raise("PlotError")
    /\ UNCHANGED <<inputs, run, prev, args, figname, simOpen, i, reads,
                   series, axes, written>>

\* The script is started again with the same command line on the same
\* simulation directory: a new process, which remembers nothing.
RunAgain ==
    /\ pc = "done"
    /\ run = "first"
    /\ run' = "second"
    /\ prev' = Outcome
    /\ pc' = "setup"
    /\ err' = ""
    /\ args' = <<>>
    /\ figname' = ""
    /\ simOpen' = FALSE
    /\ i' = 1
    /\ reads' = <<>>
    /\ series' = <<>>
    /\ axes' = NoAxes
    /\ written' = <<>>
    /\ UNCHANGED inputs

\* the steps of one process
Step ==
    \/ Setup
    \/ ParseArgs
    \/ ComputeFigname
    \/ OpenSimDir
    \/ OpenSimDirFails
    \/ SkipHorizon
    \/ PlotHorizon
    \/ ReadHorizonFails
    \/ ScatterFails
    \/ Labels
    \/ FixTicks
    \/ SaveFigure
    \/ SaveFigureFails

Next == Step \/ RunAgain

Spec == Init /\ [][Next]_vars

(* ------------------------------ properties ---------------------------- *)

\* R, the requested list as given on the command line
R == argv.horizons

\* how often h occurs in the list s
Occurrences(s, h) == Cardinality({k \in 1..Len(s) : s[k] = h})

\* the scatter series emitted for horizon h: the k-th series is drawn from
\* the k-th horizon read
SeriesFor(h) == Cardinality({k \in 1..Len(series) : reads[k] = h})

\* the requested identifiers that are available, position by position
RequestedAvailable == SelectSeq(R, LAMBDA h : h \in H)

Completed == pc = "done"

\* C1 as stated: a completed run has emitted exactly one scatter series per
\* element of R \cap H, and none for any other identifier.
C1_OneSeriesPerElement ==
    Completed =>
        \A h \in Ids :
            SeriesFor(h) = IF h \in Range(R) \cap H THEN 1 ELSE 0

\* C1 amended: a completed run has emitted, for every identifier h, as many
\* scatter series as h occurs in R when h is available (exactly one when it
\* is requested once), and none when h is unavailable or not requested.
C1_OneSeriesPerOccurrence ==
    Completed =>
        \A h \in Ids :
            SeriesFor(h) = IF h \in H THEN Occurrences(R, h) ELSE 0

\* a completed run whose request repeats an available horizon and names an
\* unavailable one
C1_Witness ==
    /\ Completed
    /\ \E h \in H : Occurrences(R, h) = 2 /\ SeriesFor(h) = 2
    /\ \E h \in Range(R) : h \notin H

\* C2: in every completed run the y-ticks of the figure, and of the figure
\* in the file, are exactly the requested list R, whatever part of R is
\* available.
C2_YTicksAreRequested ==
    Completed =>
        /\ axes.yticks = R
        /\ \A k \in 1..Len(written) : written[k].axes.yticks = R

\* a completed run in which no requested horizon is available
C2_Witness ==
    /\ Completed
    /\ Len(R) >= 2
    /\ Range(R) \cap H = {}
    /\ H # {}
    /\ series = <<>>

\* C3: in every completed run the y-limits are [min(R) - 1, max(R) + 1]
\* over the requested list, so every requested identifier lies strictly
\* inside them.
C3_YLimAroundRequested ==
    Completed =>
        /\ Len(axes.ylim) = 2
        /\ \E r \in Range(R) :
             /\ axes.ylim[1] = r - 1
             /\ \A q \in Range(R) : r <= q
        /\ \E r \in Range(R) :
             /\ axes.ylim[2] = r + 1
             /\ \A q \in Range(R) : q <= r
        /\ \A q \in Range(R) : axes.ylim[1] < q /\ q < axes.ylim[2]

\* a completed run that plotted a horizon while the lower limit comes from
\* a requested horizon that is not available
C3_Witness ==
    /\ Completed
    /\ series # <<>>
    /\ axes.ylim[1] + 1 \notin H
    /\ axes.ylim[2] - 1 \in H
    /\ axes.ylim[1] + 1 < axes.ylim[2] - 1

\* "ah" followed by "_<h>" for every requested h in order, then "_found"
RECURSIVE NameUpTo(_, _)
NameUpTo(hs, n) ==
    IF n = 0 THEN "ah" ELSE NameUpTo(hs, n - 1) \o "_" \o Str(hs[n])

\* C4: without --figname the figure name is "ah_" + the requested
\* identifiers joined by "_" in request order + "_found", whatever is
\* available; the run writes one file, <outdir>/<figname>.<extension>.
C4_DefaultFigname ==
    Completed =>
        /\ argv.figname = <<>> => figname = NameUpTo(R, Len(R)) \o "_found"
        /\ argv.figname = <<>> /\ R = <<2, -10>> => figname = "ah_2_-10_found"
        /\ argv.figname = <<>> /\ R = <<-10, -10, 2>>
             => figname = "ah_-10_-10_2_found"
        /\ argv.figname # <<>> => figname = argv.figname[1]
        /\ Len(written) = 1
        /\ written[1].path =
             argv.outdir \o "/" \o figname \o "." \o argv.fig_extension

\* a completed run with the default name, a repeated and an unavailable
\* horizon
C4_Witness ==
    /\ Completed
    /\ argv.figname = <<>>
    /\ R = <<2, -10, 2>>
    /\ H = {2}
    /\ written[1].path = "out/ah_2_-10_2_found.pdf"

\* C5: the series emitted for a plotted horizon h has the points of h's
\* detection time series: the same x values in the same order, as many y
\* values, every y equal to h.
C5_SeriesOfHorizon ==
    \A k \in 1..Len(series) :
        /\ series[k].x = cctk_t[reads[k]]
        /\ Len(series[k].y) = Len(cctk_t[reads[k]])
        /\ \A j \in 1..Len(series[k].y) : series[k].y[j] = reads[k]

\* a series of several points has been emitted
C5_Witness ==
    \E k \in 1..Len(series) :
        /\ Len(series[k].x) = MaxPoints
        /\ series[k].x[1] < series[k].x[MaxPoints]

\* the exceptions the collaborators raise
CollaboratorErrors == {"ArgumentError", "DataError", "PlotError"}

\* C6: an available horizon whose detection time series is empty gets a
\* series of zero points; the script raises nothing of its own over it, and
\* a completed run has a series for it and has written its file.
C6_EmptySeriesPlotted ==
    /\ err \in CollaboratorErrors \cup {""}
    /\ \A k \in 1..Len(series) :
         cctk_t[reads[k]] = <<>> => series[k] = [x |-> <<>>, y |-> <<>>]
    /\ Completed =>
         /\ \A h \in Range(R) \cap H :
              cctk_t[h] = <<>> =>
                \E k \in 1..Len(series) :
                    reads[k] = h /\ series[k].x = <<>> /\ series[k].y = <<>>
         /\ Len(written) = 1

\* a completed run that plotted a horizon that was never found
C6_Witness ==
    /\ Completed
    /\ \E k \in 1..Len(series) : series[k].x = <<>> /\ cctk_t[reads[k]] = <<>>
    /\ Len(written) = 1

\* C7: a run ends completed with exactly one file written, or in the error
\* of a collaborator with no file written; nothing is retried or recovered
\* from, and before either end the run can always take its next step.
C7_OneFileOrError ==
    /\ Completed => err = "" /\ Len(written) = 1 /\ ~ENABLED Step
    /\ pc = "error" =>
         err \in CollaboratorErrors /\ written = <<>> /\ ~ENABLED Step
    /\ err # "" => pc = "error"
    /\ pc \notin {"done", "error"} => ENABLED Step /\ written = <<>>

\* a run that failed reading a horizon after it had plotted another one
C7_Witness ==
    /\ pc = "error"
    /\ err = "DataError"
    /\ series # <<>>
    /\ Len(reads) = Len(series) + 1
    /\ written = <<>>

Finalized ==
    /\ axes.xlabel = "Time"
    /\ axes.ylabel = "Apparent horizon"
    /\ axes.minor_left = FALSE
    /\ axes.ylim # <<>>
    /\ axes.yticks # <<>>

\* every requested horizon has been plotted or skipped
AllProcessed ==
    /\ Len(reads) = Len(RequestedAvailable)
    /\ Len(series) = Len(reads)

\* C9: the simulation directory is open before any horizon is read; the
\* axes are touched only after every requested horizon has been processed;
\* the figure is saved only once the axes are finalized, nothing changes
\* after the save, and the saved figure has every series of R \cap H.
C9_Order ==
    /\ reads # <<>> \/ series # <<>> => simOpen
    /\ axes # NoAxes => AllProcessed
    /\ written # <<>> =>
         /\ Completed
         /\ Finalized
         /\ written[Len(written)].series = series
         /\ written[Len(written)].axes = axes
         /\ AllProcessed
         /\ {reads[k] : k \in 1..Len(series)} = Range(R) \cap H

\* a completed run that plotted two horizons and skipped one
C9_Witness ==
    /\ Completed
    /\ Len(written[1].series) = 2
    /\ Len(R) = 3
    /\ R[2] \notin H

\* s is a prefix of t
IsPrefix(s, t) == Len(s) <= Len(t) /\ s = SubSeq(t, 1, Len(s))

\* C10: R is walked position by position in request order; the provider is
\* asked only for available identifiers; once the loop is over there is one
\* read and one series per position of R holding an available identifier,
\* so k occurrences give k reads and k series; the parsed list stays R.
C10_PositionByPosition ==
    /\ args # <<>> => args.horizons = R
    /\ \A k \in 1..Len(reads) : reads[k] \in H
    /\ IsPrefix(reads, RequestedAvailable)
    /\ Len(series) <= Len(reads) /\ Len(reads) <= Len(series) + 1
    /\ pc = "loop" =>
         series = [k \in 1..Len(series) |->
                     [x |-> cctk_t[RequestedAvailable[k]],
                      y |-> [j \in 1..Len(cctk_t[RequestedAvailable[k]])
                                |-> RequestedAvailable[k]]]]
         /\ Len(series) =
              Cardinality({p \in 1..(i - 1) : R[p] \in H})
    /\ pc \in {"ticks", "save", "done"} =>
         /\ reads = RequestedAvailable
         /\ Len(series) = Cardinality({p \in 1..Len(R) : R[p] \in H})
         /\ \A h \in H : Occurrences(reads, h) = Occurrences(R, h)

\* a completed run whose request names an available horizon at its first
\* and third position, around another horizon
C10_Witness ==
    /\ Completed
    /\ Len(R) = 3
    /\ R[1] = R[3]
    /\ R[1] # R[2]
    /\ R[1] \in H
    /\ R[2] \in H
    /\ reads = R

====
